---------------------------- MODULE Spec2Model ----------------------------
(***************************************************************************)
(* A model of rustgres-schema (src/src/main.rs): the generator that reads  *)
(* the tables and columns of a PostgreSQL schema and writes one Rust       *)
(* struct per table, either into a per-table file named by the             *)
(* --table-file mapping or inline into the aggregate output file.          *)
(*                                                                         *)
(* Identifiers (table names, column names, mapping keys) are sequences of  *)
(* one-character strings, so that the case conversions of convert_case and *)
(* the identifier check of Ident::new are computed character by character. *)
(* Rust types are sequences of tokens, as quote! builds them.              *)
(*                                                                         *)
(* Spec      is the whole run of main (and a following run).               *)
(* SpecField is the body of the column loop on one column drawn from       *)
(*           bounded sets.                                                 *)
(***************************************************************************)
EXTENDS Integers, Sequences, FiniteSets, TLC

VARIABLES
    pc,                    \* position of main
    run,                   \* number of the current run (also its clock reading)
    tables,                \* the rows of the table query: a sequence of table names
    table_file_mappings,   \* HashMap<String, String>: key -> file
    use_uuid,              \* the --uuid flag
    rustfmt,               \* whether the rustfmt binary can be started
    files,                 \* the routed files on disk: path -> sequence of lines
    output,                \* the aggregate file on disk: a sequence of lines
    module_defs,           \* Vec<String>
    output_file_contents,  \* Vec<String>
    file_list,             \* Vec<String>
    idx,                   \* index of the next row of `tables`
    prior,                 \* history: `files` as the current run found them
    prev_completed,        \* history: the previous run reached the end of main
    fpc,                   \* position inside the column loop body (SpecField)
    column_name,           \* column.get(0)
    data_type,             \* column.get(1)
    is_nullable,           \* column.get(2)
    rust_type,             \* the local rust_type
    ident                  \* the local column_name after Ident::new

vars == <<pc, run, tables, table_file_mappings, use_uuid, rustfmt, files, output,
          module_defs, output_file_contents, file_list, idx, prior, prev_completed,
          fpc, column_name, data_type, is_nullable, rust_type, ident>>

runVars == <<pc, run, tables, table_file_mappings, rustfmt, files, output,
             module_defs, output_file_contents, file_list, idx, prior, prev_completed>>

fieldVars == <<fpc, column_name, data_type, is_nullable, rust_type, ident>>

-----------------------------------------------------------------------------
(* Bounds *)

MaxTables == 2      \* rows returned by the table query
MaxRoutes == 2      \* entries of the --table-file mapping
MaxRuns == 2        \* successive runs of the program
MaxNameLen == 2     \* length of a column name drawn in SpecField

-----------------------------------------------------------------------------
(* Characters *)

Lowers == <<"a","b","c","d","e","f","g","h","i","j","k","l","m",
            "n","o","p","q","r","s","t","u","v","w","x","y","z">>

Uppers == <<"A","B","C","D","E","F","G","H","I","J","K","L","M",
            "N","O","P","Q","R","S","T","U","V","W","X","Y","Z">>

Digits == {"0","1","2","3","4","5","6","7","8","9"}

Range(s) == {s[i] : i \in DOMAIN s}

LowerSet == Range(Lowers)

UpperSet == Range(Uppers)

IsLower(c) == c \in LowerSet

IsUpper(c) == c \in UpperSet

IsDigit(c) == c \in Digits

ToLowerChar(c) ==
    IF IsUpper(c) THEN Lowers[CHOOSE i \in DOMAIN Uppers : Uppers[i] = c] ELSE c

ToUpperChar(c) ==
    IF IsLower(c) THEN Uppers[CHOOSE i \in DOMAIN Lowers : Lowers[i] = c] ELSE c

-----------------------------------------------------------------------------
(* convert_case: to_case(Case::Snake) and to_case(Case::Pascal), called at *)
(* lines 338, 349 and 363.  The words of a string are cut at the default   *)
(* boundaries of the crate (every boundary but UpperLower), empty words    *)
(* are dropped, each word is put in the case's pattern, and the words are  *)
(* joined with the case's delimiter.                                       *)

\* Boundary::Underscore, Hyphen, Space: the character is a delimiter.
IsDelimiter(c) == c \in {"_", "-", " "}

\* Boundary::LowerUpper, UpperDigit, DigitUpper, DigitLower, LowerDigit:
\* a word ends between c and d.
DetectTwo(c, d) ==
    \/ IsLower(c) /\ IsUpper(d)
    \/ IsUpper(c) /\ IsDigit(d)
    \/ IsDigit(c) /\ IsUpper(d)
    \/ IsDigit(c) /\ IsLower(d)
    \/ IsLower(c) /\ IsDigit(d)

\* Boundary::Acronym: a word ends after c in "HTTPRequest"-like text.
DetectThree(c, d, e) == IsUpper(c) /\ IsUpper(d) /\ IsLower(e)

SplitAfter(s, i) ==
    \/ i + 1 <= Len(s) /\ DetectTwo(s[i], s[i + 1])
    \/ i + 2 <= Len(s) /\ DetectThree(s[i], s[i + 1], s[i + 2])

RECURSIVE SplitFrom(_, _, _, _)
SplitFrom(s, i, word, words) ==
    IF i > Len(s) THEN Append(words, word)
    ELSE IF IsDelimiter(s[i]) THEN SplitFrom(s, i + 1, <<>>, Append(words, word))
    ELSE IF SplitAfter(s, i)
         THEN SplitFrom(s, i + 1, <<>>, Append(words, Append(word, s[i])))
    ELSE SplitFrom(s, i + 1, Append(word, s[i]), words)

\* The words of s; empty words are dropped.
Split(s) == SelectSeq(SplitFrom(s, 1, <<>>, <<>>), LAMBDA w : w # <<>>)

LowerWord(w) == [i \in DOMAIN w |-> ToLowerChar(w[i])]

CapitalWord(w) ==
    [i \in DOMAIN w |-> IF i = 1 THEN ToUpperChar(w[i]) ELSE ToLowerChar(w[i])]

RECURSIVE Join(_, _)
Join(words, delim) ==
    IF words = <<>> THEN <<>>
    ELSE IF Len(words) = 1 THEN words[1]
    ELSE words[1] \o delim \o Join(Tail(words), delim)

ToSnake(s) ==
    LET ws == Split(s) IN Join([i \in DOMAIN ws |-> LowerWord(ws[i])], <<"_">>)

ToPascal(s) ==
    LET ws == Split(s) IN Join([i \in DOMAIN ws |-> CapitalWord(ws[i])], <<>>)

-----------------------------------------------------------------------------
(* syn::Ident::new, called at lines 339 and 350: panics unless the string  *)
(* is an identifier; a reserved word is accepted.                          *)

IsIdentStart(c) == c = "_" \/ IsLower(c) \/ IsUpper(c)

IsIdentContinue(c) == IsIdentStart(c) \/ IsDigit(c)

IdentOk(s) ==
    /\ s # <<>>
    /\ IsIdentStart(s[1])
    /\ \A i \in DOMAIN s : IsIdentContinue(s[i])

-----------------------------------------------------------------------------
(* The type mapping of the column loop                                     *)

\* The arms of the match on data_type, the catch-all excluded.
MatchArms ==
    {"bigint", "bigserial", "bit", "bit varying", "boolean", "box", "bytea",
     "character", "character varying", "cidr", "circle", "date", "double precision",
     "inet", "integer", "interval", "json", "jsonb", "line", "lseg", "macaddr",
     "money", "numeric", "path", "pg_lsn", "point", "polygon", "real", "smallint",
     "smallserial", "serial", "text", "timestampz", "uuid"}

\* match data_type.as_str() { ... }
MatchType(dt, uuid) ==
    CASE dt = "bigint" -> <<"i64">>
      [] dt = "bigserial" -> <<"i64">>
      [] dt = "bit" -> <<"i8">>
      [] dt = "bit varying" -> <<"i8">>
      [] dt = "boolean" -> <<"bool">>
      [] dt = "box" -> <<"String">>
      [] dt = "bytea" -> <<"Vec", "<", "u8", ">">>
      [] dt = "character" -> <<"String">>
      [] dt = "character varying" -> <<"String">>
      [] dt = "cidr" -> <<"String">>
      [] dt = "circle" -> <<"String">>
      [] dt = "date" -> <<"chrono", "::", "NaiveDate">>
      [] dt = "double precision" -> <<"f64">>
      [] dt = "inet" -> <<"String">>
      [] dt = "integer" -> <<"i32">>
      [] dt = "interval" -> <<"String">>
      [] dt = "json" -> <<"serde_json", "::", "Value">>
      [] dt = "jsonb" -> <<"serde_json", "::", "Value">>
      [] dt = "line" -> <<"String">>
      [] dt = "lseg" -> <<"String">>
      [] dt = "macaddr" -> <<"String">>
      [] dt = "money" -> <<"String">>
      [] dt = "numeric" -> <<"f64">>
      [] dt = "path" -> <<"String">>
      [] dt = "pg_lsn" -> <<"String">>
      [] dt = "point" -> <<"String">>
      [] dt = "polygon" -> <<"String">>
      [] dt = "real" -> <<"f32">>
      [] dt = "smallint" -> <<"i16">>
      [] dt = "smallserial" -> <<"i16">>
      [] dt = "serial" -> <<"i32">>
      [] dt = "text" -> <<"String">>
      [] dt = "timestampz" -> <<"String">>
      [] dt = "uuid" -> (IF uuid THEN <<"uuid", "::", "Uuid">> ELSE <<"String">>)
      [] OTHER -> <<"String">>

\* The match with the use_uuid test in the catch-all arm as well.
RustTypeFlagInCatchAll(dt, uuid) ==
    IF dt \in MatchArms THEN MatchType(dt, uuid)
    ELSE IF uuid THEN <<"uuid", "::", "Uuid">> ELSE <<"String">>

\* let rust_type = match data_type.as_str() { ... };
RustType(dt, uuid) == MatchType(dt, uuid)

\* The wrapper applied to an already wrapped type.
WrapTwice(ty, nullable) ==
    IF nullable = "YES"
    THEN <<"Option", "<", "Option", "<">> \o ty \o <<">", ">">>
    ELSE ty

\* if is_nullable == "YES" { quote! { Option<#rust_type> } } else { rust_type }
WrapNullable(ty, nullable) ==
    IF nullable = "YES" THEN <<"Option", "<">> \o ty \o <<">">> ELSE ty

FieldType(dt, nullable, uuid) == WrapNullable(RustType(dt, uuid), nullable)

-----------------------------------------------------------------------------
(* The inputs of a run: the schema in the database, the command line, the  *)
(* files an earlier run left on disk                                       *)

users == <<"u","s","e","r","s">>
table1 == <<"t","a","b","l","e","1">>
table_1 == <<"t","a","b","l","e","_","1">>
two_fa == <<"2","f","a">>
id == <<"i","d">>
email == <<"e","m","a","i","l">>
bio == <<"b","i","o">>
data == <<"d","a","t","a">>
code == <<"c","o","d","e">>
old_table == <<"o","l","d">>

TableNames == {users, table1, two_fa}

MappingKeys == {users, table1, table_1}

MappingFiles == {"users", "models"}

Column(name, dt, nullable) ==
    [column_name |-> name, data_type |-> dt, is_nullable |-> nullable]

\* The rows of the column query for a table of the schema.
Columns(table_name) ==
    CASE table_name = users ->
             <<Column(id, "serial", "NO"), Column(email, "text", "NO"),
               Column(bio, "text", "YES")>>
      [] table_name = table1 ->
             <<Column(id, "integer", "NO"), Column(data, "jsonb", "YES")>>
      [] table_name = two_fa -> <<Column(code, "text", "NO")>>
      [] OTHER -> <<>>

\* Sequences of distinct elements of S, of length at most n.
DistinctSeqs(S, n) ==
    UNION {{s \in [1..k -> S] : \A i, j \in 1..k : i # j => s[i] # s[j]} : k \in 0..n}

\* HashMap<String, String> with at most n entries.
Mappings(n) ==
    UNION {[K -> MappingFiles] : K \in {K \in SUBSET MappingKeys : Cardinality(K) <= n}}

output_directory == "src"

output_file == "schema.rs"

\* output_file.clone().replace(".rs", "")
output_file_name == "schema"

\* format!("{}/{}/{}.rs", output_directory, output_file_name, file), by components
FilePath(file) == <<output_directory, output_file_name, file>>

MappedPaths(mappings) == {FilePath(mappings[k]) : k \in DOMAIN mappings}

\* A struct definition: `table` records the table it was generated for.
NoDef == [table |-> <<>>, name |-> <<>>, fields |-> <<>>]

StaleDef ==
    [table |-> old_table, name |-> ToPascal(old_table),
     fields |-> <<[name |-> id, type |-> <<"i32">>]>>]

\* A line of a routed file: the definition and the state of its text.
FileLine(def, style) == [def |-> def, style |-> style]

\* A line of the aggregate file.
OutputLine(kind, text, def) == [kind |-> kind, text |-> text, def |-> def]

StaleFile == <<FileLine(StaleDef, "formatted")>>

StaleOutput ==
    <<OutputLine("comment", "// stale", NoDef), OutputLine("mod", "pub mod old;", NoDef),
      OutputLine("struct", "", StaleDef)>>

-----------------------------------------------------------------------------
(* The body of the table loop                                              *)

\* The fields vector: one field per column, in column order.
Fields(cols, uuid) ==
    [i \in DOMAIN cols |->
        [name |-> ToSnake(cols[i].column_name),
         type |-> FieldType(cols[i].data_type, cols[i].is_nullable, uuid)]]

\* Ident::new on every column name and on the struct name.
IdentsOk(table_name) ==
    /\ \A i \in DOMAIN Columns(table_name) :
           IdentOk(ToSnake(Columns(table_name)[i].column_name))
    /\ IdentOk(ToPascal(table_name))

StructDefinition(table_name, uuid) ==
    [table |-> table_name, name |-> ToPascal(table_name),
     fields |-> Fields(Columns(table_name), uuid)]

\* The lookup keyed by the table name as the database gives it.
LookupRawName(mappings, table_name) ==
    IF table_name \in DOMAIN mappings THEN {mappings[table_name]} ELSE {}

\* table_file_mappings.get(&struct_name.to_string().to_case(Case::Snake)):
\* the file of the mapping, as a set of at most one element.
Lookup(mappings, table_name) ==
    LET key == ToSnake(ToPascal(table_name))
    IN  IF key \in DOMAIN mappings THEN {mappings[key]} ELSE {}

\* The write with the file opened for truncation instead of append.
TruncateThenWrite(fs, path, line) ==
    [p \in DOMAIN fs \cup {path} |-> IF p = path THEN <<line>> ELSE fs[p]]

\* File::create when the path does not exist, then open in append mode and write.
AppendToFile(fs, path, line) ==
    [p \in DOMAIN fs \cup {path} |->
        IF p # path THEN fs[p]
        ELSE IF path \in DOMAIN fs THEN Append(fs[path], line) ELSE <<line>>]

\* file_path.replace(".rs", "").replace("/", "::")
\*     .replace("{output_directory}::", "").replace("{output_file_name}::", "")
ModuleName(path) ==
    LET n == Len(path)
        kept == SelectSeq(SubSeq(path, 1, n - 1),
                          LAMBDA c : c # output_directory /\ c # output_file_name)
    IN  IF kept = <<>> THEN path[n] ELSE kept[1] \o "::" \o path[n]

\* module_defs.push(format!("pub mod {};", module_name))
PushModuleDef(defs, path) == Append(defs, "pub mod " \o ModuleName(path) \o ";")

\* The push of the else branch, done for every table.
PushInlineAlways(contents, def, routed) == Append(contents, def)

\* else { output_file_contents.push(struct_definition.to_string()) }
PushInline(contents, def, routed) == IF routed THEN contents ELSE Append(contents, def)

-----------------------------------------------------------------------------
(* The end of main                                                         *)

Timestamp(n) == "// Generated on " \o ToString(n)

Header(n) ==
    <<OutputLine("comment", "// This file was generated by rustgres-schema", NoDef),
      OutputLine("comment", "// Do not edit this file directly", NoDef),
      OutputLine("comment", Timestamp(n), NoDef)>>

ModLines(defs) == [i \in DOMAIN defs |-> OutputLine("mod", defs[i], NoDef)]

StructLines(contents) == [i \in DOMAIN contents |-> OutputLine("struct", "", contents[i])]

\* The two closing loops in the other order.
OutputTextStructsFirst(n, defs, contents) ==
    Header(n) \o StructLines(contents) \o ModLines(defs)

\* File::create(&output), then the header, module_defs and output_file_contents.
OutputText(n, defs, contents) == Header(n) \o ModLines(defs) \o StructLines(contents)

\* replace(" :: ", "::") on the whole file, then rustfmt when it can be started.
Formatted(content, fmt) ==
    [i \in DOMAIN content |->
        FileLine(content[i].def, IF fmt THEN "formatted" ELSE "normalized")]

RECURSIVE FormatAll(_, _, _)
FormatAll(fs, list, fmt) ==
    IF list = <<>> THEN fs
    ELSE LET path == Head(list)
             next == IF path \in DOMAIN fs
                     THEN [fs EXCEPT ![path] = Formatted(fs[path], fmt)]
                     ELSE fs
         IN  FormatAll(next, Tail(list), fmt)

\* The removal only for the mappings whose key some table of the schema matches.
RemoveMatched(fs, mappings) ==
    [p \in DOMAIN fs \ {FilePath(mappings[k]) :
                           k \in {k \in DOMAIN mappings :
                                     \E t \in TableNames : ToSnake(ToPascal(t)) = k}}
        |-> fs[p]]

\* The removal loop left out.
RemoveNothing(fs, mappings) == fs

\* for (table, file) in &table_file_mappings { if exists { fs::remove_file } }
RemoveMapped(fs, mappings) == [p \in DOMAIN fs \ MappedPaths(mappings) |-> fs[p]]

-----------------------------------------------------------------------------
(* The run of main                                                         *)

NoFiles == [p \in {} |-> <<>>]

Init ==
    /\ pc = "start"
    /\ run = 1
    /\ tables \in DistinctSeqs(TableNames, MaxTables)
    /\ table_file_mappings \in Mappings(MaxRoutes)
    /\ use_uuid = FALSE
    /\ rustfmt \in BOOLEAN
    /\ files \in UNION {[P -> {StaleFile}] : P \in SUBSET {FilePath(f) : f \in MappingFiles}}
    /\ output = StaleOutput
    /\ module_defs = <<>>
    /\ output_file_contents = <<>>
    /\ file_list = <<>>
    /\ idx = 0
    /\ prior = files
    /\ prev_completed = FALSE
    /\ fpc = "idle"
    /\ column_name = <<>>
    /\ data_type = ""
    /\ is_nullable = "NO"
    /\ rust_type = <<>>
    /\ ident = <<>>

\* Lines 223-236: the files of all mappings are removed before connecting.
DeleteMappedFiles ==
    /\ pc = "start"
    /\ files' = RemoveMapped(files, table_file_mappings)
    /\ pc' = "connect"
    /\ UNCHANGED <<run, tables, table_file_mappings, use_uuid, rustfmt, output,
                   module_defs, output_file_contents, file_list, idx, prior,
                   prev_completed, fieldVars>>

\* Lines 247-253: postgres::Client::connect, a panic on Err.
Connect ==
    /\ pc = "connect"
    /\ \E ok \in BOOLEAN : pc' = IF ok THEN "query" ELSE "aborted"
    /\ UNCHANGED <<run, tables, table_file_mappings, use_uuid, rustfmt, files, output,
                   module_defs, output_file_contents, file_list, idx, prior,
                   prev_completed, fieldVars>>

\* Lines 256-263: the table query, a panic on Err.
QueryTables ==
    /\ pc = "query"
    /\ \E ok \in BOOLEAN :
          /\ pc' = IF ok THEN "tables" ELSE "aborted"
          /\ idx' = IF ok THEN 1 ELSE idx
    /\ UNCHANGED <<run, tables, table_file_mappings, use_uuid, rustfmt, files, output,
                   module_defs, output_file_contents, file_list, prior,
                   prev_completed, fieldVars>>

\* Lines 266-406: one iteration of the table loop.
ProcessTable ==
    /\ pc = "tables"
    /\ idx <= Len(tables)
    /\ LET table_name == tables[idx]
           def == StructDefinition(table_name, use_uuid)
           route == Lookup(table_file_mappings, table_name)
       IN  \E ok \in BOOLEAN :
              IF ~ok \/ ~IdentsOk(table_name)
              THEN \* the column query fails, or Ident::new panics
                   /\ pc' = "aborted"
                   /\ UNCHANGED <<files, module_defs, output_file_contents,
                                  file_list, idx>>
              ELSE /\ pc' = "tables"
                   /\ idx' = idx + 1
                   /\ output_file_contents' =
                          PushInline(output_file_contents, def, route # {})
                   /\ IF route # {}
                      THEN LET path == FilePath(CHOOSE f \in route : TRUE)
                           IN  /\ files' = AppendToFile(files, path, FileLine(def, "raw"))
                               /\ file_list' = Append(file_list, path)
                               /\ module_defs' = PushModuleDef(module_defs, path)
                      ELSE UNCHANGED <<files, file_list, module_defs>>
    /\ UNCHANGED <<run, tables, table_file_mappings, use_uuid, rustfmt, output,
                   prior, prev_completed, fieldVars>>

\* Lines 408-426: the aggregate file is created and written.
WriteOutput ==
    /\ pc = "tables"
    /\ idx = Len(tables) + 1
    /\ output' = OutputText(run, module_defs, output_file_contents)
    /\ pc' = "format"
    /\ UNCHANGED <<run, tables, table_file_mappings, use_uuid, rustfmt, files,
                   module_defs, output_file_contents, file_list, idx, prior,
                   prev_completed, fieldVars>>

\* Lines 428-451: every entry of file_list is normalised and given to rustfmt.
PostProcess ==
    /\ pc = "format"
    /\ files' = FormatAll(files, file_list, rustfmt)
    /\ pc' = "close"
    /\ UNCHANGED <<run, tables, table_file_mappings, use_uuid, rustfmt, output,
                   module_defs, output_file_contents, file_list, idx, prior,
                   prev_completed, fieldVars>>

\* Lines 453-461: client.close, a panic on Err.
Close ==
    /\ pc = "close"
    /\ \E ok \in BOOLEAN : pc' = IF ok THEN "done" ELSE "aborted"
    /\ UNCHANGED <<run, tables, table_file_mappings, use_uuid, rustfmt, files, output,
                   module_defs, output_file_contents, file_list, idx, prior,
                   prev_completed, fieldVars>>

\* The program is started again on the same schema with the same command line.
NextRun ==
    /\ pc \in {"done", "aborted"}
    /\ run < MaxRuns
    /\ run' = run + 1
    /\ pc' = "start"
    /\ module_defs' = <<>>
    /\ output_file_contents' = <<>>
    /\ file_list' = <<>>
    /\ idx' = 0
    /\ prior' = files
    /\ prev_completed' = (pc = "done")
    /\ UNCHANGED <<tables, table_file_mappings, use_uuid, rustfmt, files, output,
                   fieldVars>>

Next ==
    \/ DeleteMappedFiles
    \/ Connect
    \/ QueryTables
    \/ ProcessTable
    \/ WriteOutput
    \/ PostProcess
    \/ Close
    \/ NextRun

Spec == Init /\ [][Next]_vars

-----------------------------------------------------------------------------
(* The body of the column loop on one column                               *)

\* Values of information_schema.columns.data_type that no arm names.
OtherTypes == {"timestamp with time zone", "xml", "ARRAY", "USER-DEFINED"}

DataTypes == MatchArms \cup OtherTypes

NameChars == {"a", "s", "S", "1", "_"}

Names(n) == UNION {[1..k -> NameChars] : k \in 1..n}

InitField ==
    /\ pc = "columns"
    /\ run = 1
    /\ tables = <<>>
    /\ table_file_mappings = NoFiles
    /\ use_uuid \in BOOLEAN
    /\ rustfmt = FALSE
    /\ files = NoFiles
    /\ output = <<>>
    /\ module_defs = <<>>
    /\ output_file_contents = <<>>
    /\ file_list = <<>>
    /\ idx = 0
    /\ prior = NoFiles
    /\ prev_completed = FALSE
    /\ fpc = "column"
    /\ column_name \in Names(MaxNameLen)
    /\ data_type \in DataTypes
    /\ is_nullable \in {"YES", "NO"}
    /\ rust_type = <<>>
    /\ ident = <<>>

\* Lines 289-335: the match on data_type and the Option wrapper.
MapType ==
    /\ fpc = "column"
    /\ rust_type' = FieldType(data_type, is_nullable, use_uuid)
    /\ fpc' = "name"
    /\ UNCHANGED <<runVars, use_uuid, column_name, data_type, is_nullable, ident>>

\* Lines 337-345: to_case(Case::Snake), then Ident::new, which panics on a
\* string that is no identifier.
ConvertName ==
    /\ fpc = "name"
    /\ IF IdentOk(ToSnake(column_name))
       THEN /\ ident' = ToSnake(column_name)
            /\ fpc' = "done"
       ELSE /\ ident' = ident
            /\ fpc' = "panicked"
    /\ UNCHANGED <<runVars, use_uuid, column_name, data_type, is_nullable, rust_type>>

NextField == MapType \/ ConvertName

SpecField == InitField /\ [][NextField]_vars

-----------------------------------------------------------------------------
(* Vocabulary of the properties                                            *)

\* The tables whose iteration of the table loop has finished in this run.
Processed == IF idx = 0 THEN <<>> ELSE SubSeq(tables, 1, idx - 1)

\* The key the table loop looks a table up with: the snake-case form of the
\* Pascal-case struct name (tabulated once for the table names of the schema).
RoundTripTable == [t \in TableNames |-> ToSnake(ToPascal(t))]

RoundTrip(t) == RoundTripTable[t]

\* The tables of s that a mapping sends to path p, in the order of s.
SentTo(s, p) ==
    SelectSeq(s, LAMBDA t : /\ RoundTrip(t) \in DOMAIN table_file_mappings
                            /\ FilePath(table_file_mappings[RoundTrip(t)]) = p)

\* The tables of s that no mapping matches, in the order of s.
Unmatched(s) == SelectSeq(s, LAMBDA t : RoundTrip(t) \notin DOMAIN table_file_mappings)

TablesOf(content) == [i \in DOMAIN content |-> content[i].def.table]

\* The mapped files that exist.
RoutedFiles == MappedPaths(table_file_mappings) \cap DOMAIN files

\* Where the record of table t is found in the routed files, in the aggregate file.
InRouted(t) ==
    UNION {{<<p, i>> : i \in {j \in DOMAIN files[p] : files[p][j].def.table = t}} :
              p \in RoutedFiles}

InOutput(t) == {i \in DOMAIN output : output[i].kind = "struct" /\ output[i].def.table = t}

OutputWritten == pc \in {"format", "close", "done"}

RECURSIVE Distinct(_)
Distinct(s) ==
    IF s = <<>> THEN <<>>
    ELSE LET front == Distinct(SubSeq(s, 1, Len(s) - 1))
             last == s[Len(s)]
         IN  IF last \in Range(front) THEN front ELSE Append(front, last)

ReservedWords == {
    <<"a","s">>, <<"b","r","e","a","k">>, <<"c","o","n","s","t">>,
    <<"c","o","n","t","i","n","u","e">>, <<"c","r","a","t","e">>, <<"e","l","s","e">>,
    <<"e","n","u","m">>, <<"e","x","t","e","r","n">>, <<"f","a","l","s","e">>,
    <<"f","n">>, <<"f","o","r">>, <<"i","f">>, <<"i","m","p","l">>, <<"i","n">>,
    <<"l","e","t">>, <<"l","o","o","p">>, <<"m","a","t","c","h">>, <<"m","o","d">>,
    <<"m","o","v","e">>, <<"m","u","t">>, <<"p","u","b">>, <<"r","e","f">>,
    <<"r","e","t","u","r","n">>, <<"s","e","l","f">>, <<"S","e","l","f">>,
    <<"s","t","a","t","i","c">>, <<"s","t","r","u","c","t">>, <<"s","u","p","e","r">>,
    <<"t","r","a","i","t">>, <<"t","r","u","e">>, <<"t","y","p","e">>,
    <<"u","n","s","a","f","e">>, <<"u","s","e">>, <<"w","h","e","r","e">>,
    <<"w","h","i","l","e">>, <<"a","s","y","n","c">>, <<"a","w","a","i","t">>,
    <<"d","y","n">>, <<"a","b","s","t","r","a","c","t">>, <<"b","e","c","o","m","e">>,
    <<"b","o","x">>, <<"d","o">>, <<"f","i","n","a","l">>, <<"m","a","c","r","o">>,
    <<"o","v","e","r","r","i","d","e">>, <<"p","r","i","v">>, <<"t","y","p","e","o","f">>,
    <<"u","n","s","i","z","e","d">>, <<"v","i","r","t","u","a","l">>,
    <<"y","i","e","l","d">>, <<"t","r","y">>}

OptionCount(ty) == Cardinality({i \in DOMAIN ty : ty[i] = "Option"})

-----------------------------------------------------------------------------
(* Properties of the run (Spec)                                            *)

\* C1: when a run has completed, the record of every table returned by the
\* table query is found exactly once in the routed files and the aggregate file
\* taken together (so in a routed file or inline, never both, never neither),
\* and every record found there is the record of a returned table.
C1_ExactlyOneDestination ==
    pc = "done" =>
        /\ \A t \in Range(tables) :
               Cardinality(InRouted(t)) + Cardinality(InOutput(t)) = 1
        /\ \A p \in RoutedFiles : Range(TablesOf(files[p])) \subseteq Range(tables)
        /\ \A i \in DOMAIN output :
               output[i].kind = "struct" => output[i].def.table \in Range(tables)

C1_Witness ==
    /\ pc = "done"
    /\ \E t, u \in Range(tables) : InRouted(t) # {} /\ InOutput(u) # {}

\* C2: when a run completes after a completed run on the same tables with the
\* same mappings, every mapped file is as the earlier run left it: present or
\* absent as before, and with the same content.
C2_SecondRunSameFiles ==
    (pc = "done" /\ prev_completed) =>
        \A p \in MappedPaths(table_file_mappings) :
            /\ p \in DOMAIN files <=> p \in DOMAIN prior
            /\ p \in DOMAIN files => files[p] = prior[p]

C2_Witness ==
    /\ pc = "done"
    /\ prev_completed
    /\ \E p \in RoutedFiles : Len(files[p]) >= 2

\* C3: once the aggregate file is written, its module-declaration lines are
\* one line per distinct path written to in this run, in the order in which
\* the paths were first written to.
C3_OneModuleLinePerPath ==
    OutputWritten =>
        LET mods == SelectSeq(output, LAMBDA l : l.kind = "mod")
            paths == Distinct(file_list)
        IN  /\ Len(mods) = Len(paths)
            /\ \A i \in DOMAIN paths :
                   mods[i].text = "pub mod " \o ModuleName(paths[i]) \o ";"

\* C4: from the first iteration of the table loop to the end of the run, a
\* mapped file that a processed table was sent to holds exactly the records of
\* the processed tables sent to it, in processing order, whatever the file held
\* before the run.
C4_ResetThenAppend ==
    pc \in {"tables", "format", "close", "done"} =>
        \A p \in MappedPaths(table_file_mappings) :
            SentTo(Processed, p) # <<>> =>
                /\ p \in DOMAIN files
                /\ TablesOf(files[p]) = SentTo(Processed, p)

C4_Witness ==
    /\ pc = "done"
    /\ \E p \in RoutedFiles :
          /\ p \in DOMAIN prior
          /\ prior[p] = StaleFile
          /\ Len(files[p]) >= 2

\* What the aggregate file holds once written: the three header lines with the
\* timestamp last, then the lines of module_defs, then the records of the
\* unmatched tables in processing order, and nothing else.
OutputAsSpecified ==
    LET k == Len(module_defs)
        inline == Unmatched(tables)
    IN  /\ Len(output) = 3 + k + Len(inline)
        /\ \A i \in 1..3 : output[i].kind = "comment"
        /\ output[3].text = Timestamp(run)
        /\ \A i \in 1..k : output[3 + i] = OutputLine("mod", module_defs[i], NoDef)
        /\ \A i \in 1..Len(inline) :
               /\ output[3 + k + i].kind = "struct"
               /\ output[3 + k + i].def = StructDefinition(inline[i], use_uuid)

\* C5: the aggregate file changes only in the one step that follows the last
\* iteration of the table loop, and from that step to the end of the run it
\* holds the header, then the module declarations, then the inline records of
\* the unmatched tables in processing order, with nothing of its earlier content.
C5_OutputWrittenOnceAtEnd ==
    /\ [][output' # output =>
            /\ pc = "tables"
            /\ idx = Len(tables) + 1
            /\ pc' = "format"]_vars
    /\ [](OutputWritten => OutputAsSpecified)

C5_Witness ==
    /\ pc = "done"
    /\ Len(module_defs) >= 1
    /\ Len(output_file_contents) >= 1
    /\ prior # NoFiles

\* C9 as claimed: when the run has aborted and no processed table was sent to
\* a mapped path, the file the run found at that path is still there with the
\* content it had.
C9_UntouchedOnAbort ==
    pc = "aborted" =>
        \A p \in MappedPaths(table_file_mappings) :
            (SentTo(Processed, p) = <<>> /\ p \in DOMAIN prior) =>
                (p \in DOMAIN files /\ files[p] = prior[p])

\* C9 as amended: every mapped file is removed at the start of the run, before
\* the connection is attempted: from then on, and so when the run aborts, a
\* mapped path that no processed table was sent to has no file, whatever it
\* held before; the files of paths that no mapping names are left as they were.
C9_RemovedAtStart ==
    pc # "start" =>
        /\ \A p \in MappedPaths(table_file_mappings) :
               SentTo(Processed, p) = <<>> => p \notin DOMAIN files
        /\ \A p \in DOMAIN prior \ MappedPaths(table_file_mappings) :
               p \in DOMAIN files /\ files[p] = prior[p]

C9_Witness ==
    /\ pc = "aborted"
    /\ \E p \in MappedPaths(table_file_mappings) :
          /\ SentTo(Processed, p) = <<>>
          /\ p \in DOMAIN prior
          /\ p \notin DOMAIN files

-----------------------------------------------------------------------------
(* Properties of the column loop body (SpecField)                          *)

Unwrapped(ty) ==
    IF ty # <<>> /\ ty[1] = "Option" THEN SubSeq(ty, 3, Len(ty) - 1) ELSE ty

\* C8: the type mapping step always yields a type and goes on to the name
\* step (it has no aborting outcome); a database type that no arm of the match
\* names yields String; and the UUID flag changes the result for no type but
\* "uuid".
C8_MappingTotal ==
    /\ [][fpc = "column" => (fpc' = "name" /\ rust_type' # <<>>)]_vars
    /\ [](fpc # "column" =>
            /\ data_type \notin MatchArms => Unwrapped(rust_type) = <<"String">>
            /\ data_type # "uuid" =>
                   rust_type = FieldType(data_type, is_nullable, ~use_uuid))

C8_Witness ==
    /\ fpc = "name"
    /\ data_type = "USER-DEFINED"
    /\ is_nullable = "YES"
    /\ use_uuid
    /\ rust_type = <<"Option", "<", "String", ">">>

\* C7: converting a column name never aborts the run, and the identifier it
\* yields is a valid identifier that is no reserved word.
C7_IdentifierAlwaysValid ==
    /\ fpc # "panicked"
    /\ fpc = "done" => (IdentOk(ident) /\ ident \notin ReservedWords)

=============================================================================
